---- MODULE Spec2Model ----
(***************************************************************************)
(* i3-quickterm: a drop-down terminal per shell for the i3 window manager. *)
(*                                                                         *)
(* The model has two layers.  The window manager (windows with their       *)
(* instance name, workspace, mark, floating flag and rectangle, the        *)
(* focused window and workspace, pending exec requests) is the shared      *)
(* state every invocation of the script reads through queries and changes  *)
(* through commands.  An invocation is one run of main(): its position     *)
(* (pc), the locals of toggle_quickterm / toggle_quickterm_select, the     *)
(* focus events waiting on its subscription socket, and the list of        *)
(* commands it has passed to i3cmd.  Invocations interleave between IPC    *)
(* round trips.                                                            *)
(***************************************************************************)
EXTENDS Integers, Sequences, FiniteSets, TLC

\* ------------------------------------------------------------------ bounds
\* Window identifiers the window manager can hand out.
MaxWin == 2
\* Focus events that can wait unread on one subscription socket.
MaxEv == 1
\* exec requests whose terminal window has not appeared yet.
MaxPending == 1
\* Invocations of the script started in one behaviour.
MaxRuns == 3
\* Actions of the user (open, focus, switch, close) in one behaviour.
MaxActs == 1
\* pop_it on its own: workspace heights MinHeight .. MinHeight + MaxSpan.
MaxSpan == 4
\* pop_it on its own: ratios num / 2^k with k up to MaxLog.
MaxLog == 3
\* Length of the list a history file holds before the first run.
MaxStored == 3

\* ------------------------------------------------------- program constants
\* DEFAULT_CONF['ratio'] = 0.25, kept as the fraction RatioNum / RatioDen.
RatioNum == 1
RatioDen == 4
\* margin = 6 in pop_it.
Margin == 6

\* A subset of DEFAULT_CONF['shells'].
Shells == {"js", "python"}
\* DEFAULT_CONF['pos'].
Pos == "top"

Procs == {"p1", "p2"}
Wins == 1 .. MaxWin
NoWin == 0
Workspaces == {"1", "2"}
\* The workspace holding the scratchpad windows (qt.workspace().name there).
Scratch == "__i3_scratch"
NoMark == ""
\* No shell argument on the command line: the selector entry point.
NoArg == "<none>"
\* The menu's output when the user cancels.
NoSelection == ""
\* Instance names a window can report: the synthesized class name
\* (conf['term'] + '-quickterm'), the bare terminal name (conf['term']),
\* or anything else.
ClassInst == "urxvt-quickterm"
TermInst == "urxvt"
OtherInst == "firefox"
Insts == {ClassInst, TermInst, OtherInst}

WsRect(ws) ==
  IF ws = "1" THEN [x |-> 0, y |-> 0, width |-> 1920, height |-> 1080]
  ELSE [x |-> 1920, y |-> 0, width |-> 1280, height |-> 1024]

\* The rectangle of a window the tiling layout places.
Tiled == <<0, 0, 0, 0>>

Absent ==
  [alive |-> FALSE, inst |-> "", loc |-> "", mark |-> NoMark,
   floating |-> FALSE, geom |-> Tiled]

VARIABLES
  wins,        \* window id -> the window manager's record of it
  focus,       \* the focused window, NoWin when the workspace is empty
  curWs,       \* the focused workspace
  pendingExec, \* exec requests not yet turned into a window
  runs,        \* invocations started so far
  acts,        \* user actions so far
  wmFaults,    \* whether the window manager may reject commands and
               \* report zero or several focused workspaces
  lock,        \* the invocation holding the lock on the history file
  hist,        \* the content of the history file
  pc,          \* position of each invocation
  shell,       \* the shell argument / menu choice
  done,        \* the closure flag of on_window_focus
  qt,          \* the window found by find_marked: [id, ws]
  ws,          \* name of the workspace get_current_workspace returned
  evq,         \* focus events waiting on the subscription socket
  cmds,        \* commands passed to i3cmd, in order
  io,          \* what the invocation did to the history file and the menu
  rej,         \* index in cmds of the first rejected command, 0 if none
  badReply,    \* a workspace query of the invocation did not report
               \* exactly one focused workspace
  planArgs,    \* the arguments of a call of pop_it taken on its own:
               \* [rect, pos, num, den], the ratio being num / den
  planned      \* what that call computed, <<>> before the call

wmVars == <<wins, focus, curWs, pendingExec>>
fileVars == <<lock, hist>>
\* What no step of an invocation, of the user or of the window manager changes.
fixed == <<wmFaults, planArgs, planned>>
envVars == <<runs, acts, fixed, lock, hist>>
locals == <<shell, done, qt, ws>>
logs == <<cmds, io, rej, badReply>>
procVars == <<pc, shell, done, qt, ws, evq, cmds, io, rej, badReply>>
vars == <<wins, focus, curWs, pendingExec, runs, acts, wmFaults, lock, hist,
          pc, shell, done, qt, ws, evq, cmds, io, rej, badReply,
          planArgs, planned>>

\* -------------------------------------------------------- pure functions

\* MARK_QT.format(shell)
MARK_QT(s) == "quickterm_" \o s

\* The marks MARK_QT_PATTERN = 'quickterm_.*' matches.
MatchesPattern(m) == \E s \in Shells : m = MARK_QT(s)

\* tree.find_marked(mark): the ids of the windows carrying the mark.
FindMarked(m) == {w \in Wins : wins[w].alive /\ wins[w].mark = m}

\* find_marked on the whole tree in place of the workspace's subtree.
FindMarkedOnAny(n) ==
  {w \in Wins : wins[w].alive /\ wins[w].mark # NoMark}

\* ws_tree.find_marked(MARK_QT_PATTERN): marked windows below workspace n.
FindMarkedOn(n) ==
  {w \in Wins : wins[w].alive /\ wins[w].loc = n /\ MatchesPattern(wins[w].mark)}

\* pop_it without the ratio: the overlay as high as the workspace.
PlanFullHeight(rect, pos) ==
  LET height == rect.height
      posy == IF pos = "bottom" THEN rect.y + rect.height - height - Margin
              ELSE rect.y
  IN <<rect.x, posy, rect.width, height>>

\* pop_it with the margin left out of the bottom position.
PlanWithNoMargin(rect, pos, num, den) ==
  LET height == (rect.height * num) \div den
      posy == IF pos = "bottom" THEN rect.y + rect.height - height
              ELSE rect.y
  IN <<rect.x, posy, rect.width, height>>

\* The geometry pop_it computes for the ratio num / den:
\* <<posx, posy, width, height>>.  int(wheight * ratio) truncates; the
\* product is exact in floating point for the ratios used here, whose
\* denominators are powers of two.
PlanWith(rect, pos, num, den) ==
  LET height == (rect.height * num) \div den
      posy == IF pos = "bottom" THEN rect.y + rect.height - height - Margin
              ELSE rect.y
  IN <<rect.x, posy, rect.width, height>>

\* pop_it as toggle_quickterm calls it, with conf['ratio'].
Plan(rect, pos) == PlanWith(rect, pos, RatioNum, RatioDen)

\* The test of on_window_focus on the event's container.
InstanceMatches(i) == i = ClassInst \/ i = TermInst

\* The test without 'not done': the handler acts on every matching event.
HandlerFiresAgain(d, i) == InstanceMatches(i)

\* if not done and (instance matches): the handler acts once.
HandlerFires(d, i) == ~d /\ InstanceMatches(i)

\* if len(qt) == 0: no window carries the mark, the terminal is spawned.
NotRunning(found) == found = {}

\* The comparison left out: pop_it after every move_back.
ElsewhereAlways(q, n) == TRUE

\* if qt.workspace().name != ws.name: the window is not on workspace n.
Elsewhere(q, n) == q.ws # n

\* sorted(conf['shells'].keys())
SortedShells == <<"js", "python">>

Range(f) == {f[i] : i \in DOMAIN f}

\* The list offered to the menu: the stored list if json.load gave a list
\* over exactly the configured shells, else the sorted names.
Offered(h) ==
  IF h.valid /\ Range(h.list) = Shells /\ h.list # <<>> THEN h.list
  ELSE SortedShells

\* [shell] + shells: the selected shell is not taken out of the rest.
OnTopKeepsAll(s, l) == <<s>> \o l

\* [shell] + [s for s in shells if s != shell]
OnTop(s, l) == <<s>> \o SelectSeq(l, LAMBDA x : x # s)

\* ------------------------------------------- the window manager's commands

\* What the window manager may answer: a command is carried out or rejected.
Outcomes == IF wmFaults THEN {TRUE, FALSE} ELSE {TRUE}

\* The replies get_workspaces can give, as the list of the workspaces
\* flagged focused, in reply order.  i3 itself flags exactly one.
FocusedReplies ==
  IF wmFaults THEN {<<>>, <<curWs>>, <<"1", "2">>} ELSE {<<curWs>>}

\* A mark that stays on the window that had it.
MarkEffectShared(W, f, tag) ==
  IF f = NoWin THEN W
  ELSE [w \in Wins |-> IF w = f THEN [W[w] EXCEPT !.mark = tag] ELSE W[w]]

\* 'mark <tag>' without criteria: the focused window gets the mark in place
\* of its own, and the mark leaves any other window (marks are unique).
MarkEffect(W, f, tag) ==
  IF f = NoWin THEN W
  ELSE [w \in Wins |->
          IF w = f THEN [W[w] EXCEPT !.mark = tag]
          ELSE IF W[w].mark = tag THEN [W[w] EXCEPT !.mark = NoMark]
          ELSE W[w]]

\* 'floating enable' alone: 'move scratchpad' left out of the command.
HideEffectFloatOnly(W, M) ==
  [w \in Wins |-> IF w \in M THEN [W[w] EXCEPT !.floating = TRUE] ELSE W[w]]

\* '<selector> floating enable, move scratchpad' on the windows M.
HideEffect(W, M) ==
  [w \in Wins |->
     IF w \in M THEN [W[w] EXCEPT !.floating = TRUE, !.loc = Scratch]
     ELSE W[w]]

\* '[con_mark=..],resize set, move absolute position, move scratchpad,
\* scratchpad show' on the windows M: g is <<posx, posy, width, height>>,
\* cw the workspace that has the focus when the command runs.
ShowEffect(W, M, g, cw) ==
  [w \in Wins |->
     IF w \in M THEN [W[w] EXCEPT !.geom = g, !.floating = TRUE, !.loc = cw]
     ELSE W[w]]

\* The windows a selector addresses.
ByConId(id) == {w \in Wins : w = id /\ wins[w].alive}
ByConMark(tag) == {w \in Wins : wins[w].alive /\ wins[w].mark = tag}

\* Where the focus can go once the windows are as in W: it stays on a
\* window still on the focused workspace, else moves to another window of
\* that workspace, else to the empty workspace.
FocusChoices(W, f, cw) ==
  IF f # NoWin /\ W[f].alive /\ W[f].loc = cw THEN {f}
  ELSE LET c == {w \in Wins : W[w].alive /\ W[w].loc = cw}
       IN IF c = {} THEN {NoWin} ELSE c

\* An invocation whose subscription socket is open (conn.on .. end of main).
Subscribed(p) == pc[p] \in {"loop", "h_hide", "h_show"}

\* The queues after a window::focus event for window w (as in W) is sent to
\* every open subscription; a full socket buffer loses the event.
Emit(Q, w, W) ==
  [p \in Procs |->
     IF Subscribed(p) /\ Len(Q[p]) < MaxEv
     THEN Append(Q[p], [win |-> w, inst |-> W[w].inst])
     ELSE Q[p]]

\* The queues after the focus moved from f to g.
FocusMoved(Q, f, g, W) == IF g # NoWin /\ g # f THEN Emit(Q, g, W) ELSE Q

\* i3cmd(conn, cmd): the command is logged, sent, and the reply dropped.
Cmd(op, id, tag) == [op |-> op, id |-> id, tag |-> tag]
Logged(p, c) == [cmds EXCEPT ![p] = Append(@, c)]
Rejected(p, ok) ==
  IF ~ok /\ rej[p] = 0 THEN [rej EXCEPT ![p] = Len(cmds[p]) + 1] ELSE rej

\* ------------------------------------------------------------ initial state

NoQt == [id |-> NoWin, ws |-> ""]
\* The arguments toggle_quickterm passes: DEFAULT_CONF's on workspace 1.
NoPlan == [rect |-> WsRect("1"), pos |-> Pos, num |-> RatioNum, den |-> RatioDen]
NoProc == "<nobody>"
\* The history file: whether json.load yields a list, and the list.  The
\* file starts empty (open(.., 'a+') creates it), which json.load refuses.
EmptyFile == [valid |-> FALSE, list |-> <<>>]

InitOf(faults, file, args) ==
  /\ wins = [w \in Wins |-> Absent]
  /\ focus = NoWin
  /\ curWs = "1"
  /\ pendingExec = 0
  /\ runs = 0
  /\ acts = 0
  /\ wmFaults = faults
  /\ lock = NoProc
  /\ hist = file
  /\ pc = [p \in Procs |-> "idle"]
  /\ shell = [p \in Procs |-> NoArg]
  /\ done = [p \in Procs |-> FALSE]
  /\ qt = [p \in Procs |-> NoQt]
  /\ ws = [p \in Procs |-> ""]
  /\ evq = [p \in Procs |-> <<>>]
  /\ cmds = [p \in Procs |-> <<>>]
  /\ io = [p \in Procs |-> <<>>]
  /\ rej = [p \in Procs |-> 0]
  /\ badReply = [p \in Procs |-> FALSE]
  /\ planArgs = args
  /\ planned = <<>>

InitWith(faults) == InitOf(faults, EmptyFile, NoPlan)

Init == InitWith(FALSE)

\* ------------------------------------------------------------- invocations

\* main() without the test 'shell not in conf['shells']'.
MainNoCheck(p, arg) ==
  /\ pc[p] = "idle"
  /\ runs < MaxRuns
  /\ runs' = runs + 1
  /\ pc' = [pc EXCEPT ![p] = IF arg = NoArg THEN "select" ELSE "toggle"]
  /\ shell' = [shell EXCEPT ![p] = arg]
  /\ UNCHANGED <<wmVars, acts, fixed, fileVars, done, qt, ws, evq, logs>>

\* main(): no argument runs the selector, an unknown shell returns 1,
\* a configured shell runs toggle_quickterm.
Main(p, arg) ==
  /\ pc[p] = "idle"
  /\ runs < MaxRuns
  /\ runs' = runs + 1
  /\ pc' = [pc EXCEPT ![p] = IF arg = NoArg THEN "select"
                             ELSE IF arg \notin Shells THEN "exit1"
                             ELSE "toggle"]
  /\ shell' = [shell EXCEPT ![p] = arg]
  /\ UNCHANGED <<wmVars, acts, fixed, fileVars, done, qt, ws, evq, logs>>

\* toggle_quickterm up to the branch: find_marked on a fresh tree; with no
\* window, the handler is registered and the terminal exec'ed; with one, its
\* id and workspace are kept from the tree snapshot.
ToggleFind(p) ==
  /\ pc[p] = "toggle"
  /\ LET found == FindMarked(MARK_QT(shell[p])) IN
     IF NotRunning(found)
     THEN \E ok \in Outcomes :
            /\ cmds' = Logged(p, Cmd("exec", NoWin, shell[p]))
            /\ rej' = Rejected(p, ok)
            /\ pendingExec' = IF ok /\ pendingExec < MaxPending
                              THEN pendingExec + 1 ELSE pendingExec
            /\ done' = [done EXCEPT ![p] = FALSE]
            /\ pc' = [pc EXCEPT ![p] = "loop"]
            /\ UNCHANGED <<wins, focus, curWs, qt>>
     ELSE \E w \in found :
            /\ qt' = [qt EXCEPT ![p] = [id |-> w, ws |-> wins[w].loc]]
            /\ pc' = [pc EXCEPT ![p] = "x_ws"]
            /\ UNCHANGED <<wmVars, done, cmds, rej>>
  /\ UNCHANGED <<envVars, shell, ws, evq, io, badReply>>

\* on_window_focus without 'done = True': the handler marks the window
\* and leaves the flag unset.
HandleEventNoFlag(p) ==
  /\ pc[p] = "loop"
  /\ evq[p] # <<>>
  /\ LET window == Head(evq[p]) IN
     IF HandlerFires(done[p], window.inst)
     THEN \E ok \in Outcomes :
            /\ cmds' = Logged(p, Cmd("mark", NoWin, MARK_QT(shell[p])))
            /\ rej' = Rejected(p, ok)
            /\ wins' = IF ok THEN MarkEffect(wins, focus, MARK_QT(shell[p]))
                       ELSE wins
            /\ pc' = [pc EXCEPT ![p] = "h_hide"]
            /\ UNCHANGED done
     ELSE UNCHANGED <<done, cmds, rej, wins, pc>>
  /\ evq' = [evq EXCEPT ![p] = Tail(@)]
  /\ UNCHANGED <<focus, curWs, pendingExec, envVars, shell, qt, ws, io, badReply>>

\* on_window_focus up to the mark command: the next event is read; if the
\* flag is unset and the instance matches, the flag is set and 'mark' sent.
HandleEvent(p) ==
  /\ pc[p] = "loop"
  /\ evq[p] # <<>>
  /\ LET window == Head(evq[p]) IN
     IF HandlerFires(done[p], window.inst)
     THEN \E ok \in Outcomes :
            /\ done' = [done EXCEPT ![p] = TRUE]
            /\ cmds' = Logged(p, Cmd("mark", NoWin, MARK_QT(shell[p])))
            /\ rej' = Rejected(p, ok)
            /\ wins' = IF ok THEN MarkEffect(wins, focus, MARK_QT(shell[p]))
                       ELSE wins
            /\ pc' = [pc EXCEPT ![p] = "h_hide"]
     ELSE UNCHANGED <<done, cmds, rej, wins, pc>>
  /\ evq' = [evq EXCEPT ![p] = Tail(@)]
  /\ UNCHANGED <<focus, curWs, pendingExec, envVars, shell, qt, ws, io, badReply>>

\* move_back(conn, selector) on the windows M, then the invocation is at next.
MoveBack(p, c, M, next) ==
  \E ok \in Outcomes :
    LET W == IF ok THEN HideEffect(wins, M) ELSE wins IN
    \E f \in FocusChoices(W, focus, curWs) :
      /\ cmds' = Logged(p, c)
      /\ rej' = Rejected(p, ok)
      /\ wins' = W
      /\ focus' = f
      /\ evq' = FocusMoved(evq, focus, f, W)
      /\ pc' = [pc EXCEPT ![p] = next]
      /\ UNCHANGED <<curWs, pendingExec, envVars, locals, io, badReply>>

\* pop_it(conn, mark_name, pos, ratio): the focused workspace is queried
\* (no focused workspace in the reply: IndexError), the geometry planned from
\* the first one, and the show command sent against the mark.
PopIt(p, tag, next) ==
  \E reply \in FocusedReplies :
    /\ badReply' = [badReply EXCEPT ![p] = @ \/ Len(reply) # 1]
    /\ IF reply = <<>>
       THEN /\ pc' = [pc EXCEPT ![p] = "failed"]
            /\ UNCHANGED <<wmVars, evq, cmds, rej>>
       ELSE \E ok \in Outcomes :
              LET M == ByConMark(tag)
                  g == Plan(WsRect(Head(reply)), Pos)
                  W == IF ok THEN ShowEffect(wins, M, g, curWs) ELSE wins
              IN /\ cmds' = Logged(p, Cmd("show", NoWin, tag))
                 /\ rej' = Rejected(p, ok)
                 /\ wins' = W
                 /\ IF ok /\ M # {}
                    THEN \E w \in M : focus' = w /\ evq' = Emit(evq, w, W)
                    ELSE UNCHANGED <<focus, evq>>
                 /\ pc' = [pc EXCEPT ![p] = next]
                 /\ UNCHANGED <<curWs, pendingExec>>
    /\ UNCHANGED <<envVars, locals, io>>

\* on_window_focus, second command: move_back against the mark.
HandlerHide(p) ==
  /\ pc[p] = "h_hide"
  /\ MoveBack(p, Cmd("hide", NoWin, MARK_QT(shell[p])),
              ByConMark(MARK_QT(shell[p])), "h_show")

\* on_window_focus, third command: pop_it; the handler returns to the loop,
\* which goes on reading events (nothing calls main_quit).
HandlerShow(p) ==
  /\ pc[p] = "h_show"
  /\ PopIt(p, MARK_QT(shell[p]), "loop")

\* conn.main() without a timeout: nothing ends the loop.
TimeoutNever(p) ==
  /\ pc[p] = "loop"
  /\ FALSE
  /\ UNCHANGED vars

\* conn.main(timeout=2): the timer ends the loop, between two events.
Timeout(p) ==
  /\ pc[p] = "loop"
  /\ pc' = [pc EXCEPT ![p] = "done"]
  /\ evq' = [evq EXCEPT ![p] = <<>>]
  /\ UNCHANGED <<wmVars, envVars, locals, logs>>

\* get_current_workspace: [w for w in workspaces if w['focused']][0].
ExistQueryWs(p) ==
  /\ pc[p] = "x_ws"
  /\ \E reply \in FocusedReplies :
       /\ badReply' = [badReply EXCEPT ![p] = @ \/ Len(reply) # 1]
       /\ IF reply = <<>>
          THEN pc' = [pc EXCEPT ![p] = "failed"] /\ UNCHANGED ws
          ELSE /\ ws' = [ws EXCEPT ![p] = Head(reply)]
               /\ pc' = [pc EXCEPT ![p] = "x_hide"]
  /\ UNCHANGED <<wmVars, envVars, shell, done, qt, evq, cmds, io, rej>>

\* The existing window is moved back by its id.
ExistHide(p) ==
  /\ pc[p] = "x_hide"
  /\ MoveBack(p, Cmd("hide", qt[p].id, NoMark), ByConId(qt[p].id), "x_cmp")

\* if qt.workspace().name != ws.name: pop_it(...)
ExistShow(p) ==
  /\ pc[p] = "x_cmp"
  /\ IF Elsewhere(qt[p], ws[p])
     THEN PopIt(p, MARK_QT(shell[p]), "done")
     ELSE /\ pc' = [pc EXCEPT ![p] = "done"]
          /\ UNCHANGED <<wmVars, envVars, locals, evq, logs>>

\* toggle_quickterm_select up to the branch: the focused workspace and the
\* quickterm windows below it; qt[0] is the first in tree order.
SelQuery(p) ==
  /\ pc[p] = "select"
  /\ \E reply \in FocusedReplies :
       /\ badReply' = [badReply EXCEPT ![p] = @ \/ Len(reply) # 1]
       /\ IF reply = <<>>
          THEN pc' = [pc EXCEPT ![p] = "failed"] /\ UNCHANGED <<ws, qt>>
          ELSE /\ ws' = [ws EXCEPT ![p] = Head(reply)]
               /\ IF FindMarkedOn(Head(reply)) # {}
                  THEN \E w \in FindMarkedOn(Head(reply)) :
                         /\ qt' = [qt EXCEPT ![p] = [id |-> w, ws |-> wins[w].loc]]
                         /\ pc' = [pc EXCEPT ![p] = "s_hide"]
                  ELSE /\ pc' = [pc EXCEPT ![p] = "s_lock"]
                       /\ UNCHANGED qt
  /\ UNCHANGED <<wmVars, envVars, shell, done, evq, cmds, io, rej>>

\* The selector hides the quickterm it found and returns.
SelHide(p) ==
  /\ pc[p] = "s_hide"
  /\ MoveBack(p, Cmd("hide", qt[p].id, NoMark), ByConId(qt[p].id), "done")

\* get_history_file without the wait: the file is opened and not locked.
SelLockNoWait(p) ==
  /\ pc[p] = "s_lock"
  /\ lock' = p
  /\ io' = [io EXCEPT ![p] = Append(@, "lock")]
  /\ pc' = [pc EXCEPT ![p] = "menu"]
  /\ UNCHANGED <<wmVars, runs, acts, fixed, hist, locals, evq, cmds, rej, badReply>>

\* get_history_file: fcntl.lockf(f, LOCK_EX) waits until the lock is free.
SelLock(p) ==
  /\ pc[p] = "s_lock"
  /\ lock = NoProc
  /\ lock' = p
  /\ io' = [io EXCEPT ![p] = Append(@, "lock")]
  /\ pc' = [pc EXCEPT ![p] = "menu"]
  /\ UNCHANGED <<wmVars, runs, acts, fixed, hist, locals, evq, cmds, rej, badReply>>

\* The selector without its last line: the choice is written and not toggled.
SelMenuNoToggle(p, choice) ==
  /\ pc[p] = "menu"
  /\ lock' = NoProc
  /\ IF choice \in Shells
     THEN /\ hist' = [valid |-> TRUE, list |-> OnTop(choice, Offered(hist))]
          /\ io' = [io EXCEPT ![p] = @ \o <<"menu", "write", "unlock">>]
          /\ shell' = [shell EXCEPT ![p] = choice]
          /\ pc' = [pc EXCEPT ![p] = "done"]
     ELSE /\ io' = [io EXCEPT ![p] = @ \o <<"menu", "unlock">>]
          /\ pc' = [pc EXCEPT ![p] = "done"]
          /\ UNCHANGED <<hist, shell>>
  /\ UNCHANGED <<wmVars, runs, acts, fixed, done, qt, ws, evq, cmds, rej, badReply>>

\* The history written before the test 'shell not in conf['shells']'.
SelMenuWritesFirst(p, choice) ==
  /\ pc[p] = "menu"
  /\ lock' = NoProc
  /\ hist' = [valid |-> TRUE, list |-> OnTop(choice, Offered(hist))]
  /\ IF choice \in Shells
     THEN /\ io' = [io EXCEPT ![p] = @ \o <<"menu", "write", "unlock">>]
          /\ shell' = [shell EXCEPT ![p] = choice]
          /\ pc' = [pc EXCEPT ![p] = "toggle"]
     ELSE /\ io' = [io EXCEPT ![p] = @ \o <<"menu", "unlock">>]
          /\ pc' = [pc EXCEPT ![p] = "done"]
          /\ UNCHANGED shell
  /\ UNCHANGED <<wmVars, runs, acts, fixed, done, qt, ws, evq, cmds, rej, badReply>>

\* The guarded block: the list is read, the menu run on it; a choice that
\* is no configured shell returns, a configured one is written on top and
\* toggled.  The lock is released on the way out.
SelMenu(p, choice) ==
  /\ pc[p] = "menu"
  /\ lock' = NoProc
  /\ IF choice \in Shells
     THEN /\ hist' = [valid |-> TRUE, list |-> OnTop(choice, Offered(hist))]
          /\ io' = [io EXCEPT ![p] = @ \o <<"menu", "write", "unlock">>]
          /\ shell' = [shell EXCEPT ![p] = choice]
          /\ pc' = [pc EXCEPT ![p] = "toggle"]
     ELSE /\ io' = [io EXCEPT ![p] = @ \o <<"menu", "unlock">>]
          /\ pc' = [pc EXCEPT ![p] = "done"]
          /\ UNCHANGED <<hist, shell>>
  /\ UNCHANGED <<wmVars, runs, acts, fixed, done, qt, ws, evq, cmds, rej, badReply>>

\* The guarded block raises (the menu program cannot be started): the
\* finally clause of get_history_file releases the lock.
SelMenuRaises(p) ==
  /\ pc[p] = "menu"
  /\ lock' = NoProc
  /\ io' = [io EXCEPT ![p] = Append(@, "unlock")]
  /\ pc' = [pc EXCEPT ![p] = "failed"]
  /\ UNCHANGED <<wmVars, runs, acts, fixed, hist, locals, evq, cmds, rej, badReply>>

\* sys.exit(main.main(.., standalone_mode=False)): the value main returned,
\* or 1 when an exception ended the process; -1 while it runs.
ExitCode(p) ==
  IF pc[p] = "done" THEN 0
  ELSE IF pc[p] \in {"exit1", "failed"} THEN 1
  ELSE -1

\* The process is gone; its slot can hold the next invocation.
Exit(p) ==
  /\ pc[p] \in {"done", "failed", "exit1"}
  /\ pc' = [pc EXCEPT ![p] = "idle"]
  /\ shell' = [shell EXCEPT ![p] = NoArg]
  /\ done' = [done EXCEPT ![p] = FALSE]
  /\ qt' = [qt EXCEPT ![p] = NoQt]
  /\ ws' = [ws EXCEPT ![p] = ""]
  /\ evq' = [evq EXCEPT ![p] = <<>>]
  /\ cmds' = [cmds EXCEPT ![p] = <<>>]
  /\ io' = [io EXCEPT ![p] = <<>>]
  /\ rej' = [rej EXCEPT ![p] = 0]
  /\ badReply' = [badReply EXCEPT ![p] = FALSE]
  /\ UNCHANGED <<wmVars, envVars>>

\* -------------------------------------------- the window manager and the user

FreeIds == {w \in Wins : ~wins[w].alive}
FirstFree == CHOOSE w \in FreeIds : \A v \in FreeIds : w <= v

\* A new window of instance i appears tiled on the focused workspace and
\* takes the focus.
Opened(i) ==
  LET w == FirstFree
      W == [wins EXCEPT ![w] =
              [alive |-> TRUE, inst |-> i, loc |-> curWs, mark |-> NoMark,
               floating |-> FALSE, geom |-> Tiled]]
  IN /\ FreeIds # {}
     /\ wins' = W
     /\ focus' = w
     /\ evq' = Emit(evq, w, W)

\* The terminal of an exec request maps its window; with DEFAULT_CONF
\* (urxvt, no class option) its instance is the terminal's name.
WmSpawn ==
  /\ pendingExec > 0
  /\ Opened(TermInst)
  /\ pendingExec' = pendingExec - 1
  /\ UNCHANGED <<curWs, envVars, pc, locals, logs>>

\* The terminal of an exec request ends without a window.
ExecFails ==
  /\ pendingExec > 0
  /\ pendingExec' = pendingExec - 1
  /\ UNCHANGED <<wins, focus, curWs, envVars, procVars>>

\* One more action of the user.
Acted ==
  /\ acts < MaxActs
  /\ acts' = acts + 1
  /\ UNCHANGED <<runs, fixed, fileVars>>

\* The user opens a window of their own: a plain terminal or another program.
UserOpen(i) ==
  /\ Acted
  /\ Opened(i)
  /\ UNCHANGED <<curWs, pendingExec, pc, locals, logs>>

\* The user focuses a window on some workspace.
UserFocus(w) ==
  /\ Acted
  /\ wins[w].alive
  /\ wins[w].loc \in Workspaces
  /\ w # focus
  /\ focus' = w
  /\ curWs' = wins[w].loc
  /\ evq' = Emit(evq, w, wins)
  /\ UNCHANGED <<wins, pendingExec, pc, locals, logs>>

\* The user switches to an empty workspace.
UserSwitch(n) ==
  /\ Acted
  /\ n # curWs
  /\ \A w \in Wins : ~(wins[w].alive /\ wins[w].loc = n)
  /\ curWs' = n
  /\ focus' = NoWin
  /\ UNCHANGED <<wins, pendingExec, procVars>>

\* A window is closed (the terminal's shell exits, the user kills it).
UserClose(w) ==
  /\ Acted
  /\ wins[w].alive
  /\ LET W == [wins EXCEPT ![w] = Absent] IN
     \E f \in FocusChoices(W, focus, curWs) :
       /\ wins' = W
       /\ focus' = f
       /\ evq' = FocusMoved(evq, focus, f, W)
  /\ UNCHANGED <<curWs, pendingExec, pc, locals, logs>>

\* ------------------------------------------------------------ specifications

\* What the menu program can print: a configured shell, nothing (the user
\* cancelled), or a name that is no configured shell.
MenuOutputs == Shells \cup {NoSelection, "ruby"}

\* The steps of a started invocation.
Run(p) ==
  \/ ToggleFind(p)
  \/ HandleEvent(p)
  \/ HandlerHide(p)
  \/ HandlerShow(p)
  \/ Timeout(p)
  \/ ExistQueryWs(p)
  \/ ExistHide(p)
  \/ ExistShow(p)
  \/ SelQuery(p)
  \/ SelHide(p)
  \/ SelLock(p)
  \/ \E choice \in MenuOutputs : SelMenu(p, choice)
  \/ SelMenuRaises(p)

\* What the command line can hold: a configured shell, nothing, or a name
\* that is no configured shell.
Args == Shells \cup {NoArg, "ruby"}

Step(p) ==
  \/ \E arg \in Args : Main(p, arg)
  \/ Run(p)
  \/ Exit(p)

UserStep ==
  \/ \E i \in {TermInst, OtherInst} : UserOpen(i)
  \/ \E w \in Wins : UserFocus(w)
  \/ \E n \in Workspaces : UserSwitch(n)
  \/ \E w \in Wins : UserClose(w)

WmStep ==
  \/ WmSpawn
  \/ ExecFails

\* Invocations run concurrently with each other and with the user.
Next ==
  \/ \E p \in Procs : Step(p)
  \/ UserStep
  \/ WmStep

Spec == Init /\ [][Next]_vars

\* One invocation at a time, as when the key binding is pressed again only
\* after the script has returned: p1 runs, then (if at all) p2 follows it
\* with nothing but the window manager's own steps in between, then both
\* processes are gone and the user may act before the next pair.
Finished == {"done", "failed", "exit1"}

SeqMain(p, arg) ==
  /\ IF p = "p1" THEN pc["p2"] = "idle" ELSE pc["p1"] \in Finished
  /\ Main(p, arg)

SeqExit(p) ==
  /\ IF p = "p1" THEN pc["p2"] \in Finished \cup {"idle"} ELSE pc["p1"] = "idle"
  /\ Exit(p)

BothIdle == \A p \in Procs : pc[p] = "idle"

NextSeq ==
  \/ \E p \in Procs : \/ \E arg \in Args : SeqMain(p, arg)
                      \/ Run(p)
                      \/ SeqExit(p)
  \/ BothIdle /\ UserStep
  \/ WmStep

SpecSeq == Init /\ [][NextSeq]_vars

\* The same scheduling, with a window manager that may reject commands and
\* report zero or several focused workspaces.
SpecFaults == InitWith(TRUE) /\ [][NextSeq]_vars

\* The steps of toggle_quickterm that wait for nothing: a query or a command
\* and its reply, and the timer of conn.main ending the loop.
Advance(p) ==
  \/ ToggleFind(p)
  \/ HandlerHide(p)
  \/ HandlerShow(p)
  \/ Timeout(p)
  \/ ExistQueryWs(p)
  \/ ExistHide(p)
  \/ ExistShow(p)

\* A running process keeps running and the timer fires: the steps of
\* Advance are taken when they stay possible.  The arrival of focus events
\* is left to the window manager and the user.
SpecSeqFair ==
  Init /\ [][NextSeq]_vars /\ \A p \in Procs : WF_vars(Advance(p))

\* What the history file can hold before the first run: nothing json.load
\* accepts (the file is new, empty or damaged), or a JSON list of names,
\* among them names of no configured shell and repeated names.
StoredNames == Shells \cup {"ruby"}
StoredLists ==
  UNION {[1 .. n -> StoredNames] : n \in 0 .. MaxStored}
StoredFiles ==
  {EmptyFile} \cup {[valid |-> TRUE, list |-> l] : l \in StoredLists}

InitHist == \E f \in StoredFiles : InitOf(FALSE, f, NoPlan)

SpecHist == InitHist /\ [][NextSeq]_vars

\* pop_it taken on its own, for the workspace rectangles, edges and ratios
\* below.  The heights hold 1080 and a run of values around 1024 that are
\* and are not multiples of the denominators.
MinHeight == 1020
Heights == {1080} \cup (MinHeight .. MinHeight + MaxSpan)
Rects ==
  [x : {0, 1920}, y : {0, 24}, width : {1280, 1920}, height : Heights]
Edges == {"top", "bottom"}
RECURSIVE Pow2(_)
Pow2(k) == IF k = 0 THEN 1 ELSE 2 * Pow2(k - 1)
Dens == {Pow2(k) : k \in 0 .. MaxLog}
PlanInputs ==
  {a \in [rect : Rects, pos : Edges, num : 1 .. Pow2(MaxLog), den : Dens] :
     a.num <= a.den}

InitPlan == \E a \in PlanInputs : InitOf(FALSE, EmptyFile, a)

\* The geometry part of pop_it (lines 147-161) run on planArgs; calling it
\* again computes from the same arguments.
PlanGeometry ==
  /\ planned' = PlanWith(planArgs.rect, planArgs.pos, planArgs.num, planArgs.den)
  /\ UNCHANGED <<wmVars, runs, acts, wmFaults, planArgs, fileVars, procVars>>

NextPlan == PlanGeometry

SpecPlan == InitPlan /\ [][NextPlan]_vars

\* ------------------------------------------------------------------ claims

\* The live windows carrying the tag of shell s.
Tagged(s) == {w \in Wins : wins[w].alive /\ wins[w].mark = "quickterm_" \o s}

\* The live quickterm windows on the focused workspace.
VisibleQuickterms ==
  {w \in Wins : wins[w].alive /\ wins[w].loc = curWs /\ wins[w].mark # NoMark}

\* The overlay on each workspace with ratio 0.25 at the top edge:
\* <<x, y, width, height / 4>>.
Overlay(n) ==
  IF n = "1" THEN <<0, 0, 1920, 270>> ELSE <<1920, 0, 1280, 256>>

\* The commands of a spawn whose handler fired, and of the two ways an
\* existing window is toggled.
SpawnCmds(s) ==
  <<Cmd("exec", NoWin, s), Cmd("mark", NoWin, MARK_QT(s)),
    Cmd("hide", NoWin, MARK_QT(s)), Cmd("show", NoWin, MARK_QT(s))>>
HideCmds(w) == <<Cmd("hide", w, NoMark)>>
RelocateCmds(w, s) == <<Cmd("hide", w, NoMark), Cmd("show", NoWin, MARK_QT(s))>>

\* p is the invocation that ran last (under SpecSeq p2 follows p1).
Latest(p) == p = "p2" \/ pc["p2"] = "idle"

\* C1: a toggle(S) that spawns and whose handler fires issues exec, mark,
\* hide, show and leaves the window tagged for S visible on the focused
\* workspace; a toggle(S) that follows it at once issues only the hide
\* against that window, which ends in the scratchpad.
C1_SpawnShowThenHide ==
  LET s == shell["p1"] IN
  (pc["p1"] = "done" /\ done["p1"]) =>
    /\ cmds["p1"] = SpawnCmds(s)
    /\ pc["p2"] = "idle" =>
         \E w \in Tagged(s) : wins[w].loc = curWs
    /\ (pc["p2"] = "done" /\ shell["p2"] = s) =>
         \E w \in Tagged(s) :
           cmds["p2"] = HideCmds(w) /\ wins[w].loc = Scratch

\* A second toggle(S) has hidden the window the first one spawned and showed.
C1_Witness ==
  /\ pc["p1"] = "done" /\ done["p1"] /\ cmds["p1"] = SpawnCmds(shell["p1"])
  /\ pc["p2"] = "done" /\ shell["p2"] = shell["p1"]
  /\ \E w \in Tagged(shell["p1"]) :
       cmds["p2"] = HideCmds(w) /\ wins[w].loc = Scratch

ToggledExisting(p) ==
  pc[p] = "done" /\ shell[p] \in Shells /\ qt[p].id # NoWin

\* C3: toggle(S) that finds the window tagged for S on the focused workspace
\* issues the hide against the window's id and nothing else; the window is
\* then floating in the scratchpad.
C3_HideWhenOnCurrent ==
  \A p \in Procs :
    /\ (pc[p] = "x_hide" /\ ~Elsewhere(qt[p], ws[p])) =>
         /\ wins[qt[p].id].mark = MARK_QT(shell[p])
         /\ wins[qt[p].id].loc = curWs
    /\ (ToggledExisting(p) /\ ~Elsewhere(qt[p], ws[p])) =>
         /\ cmds[p] = HideCmds(qt[p].id)
         /\ Latest(p) => /\ wins[qt[p].id].alive
                         /\ wins[qt[p].id].loc = Scratch
                         /\ wins[qt[p].id].floating

\* A toggle found its window on the focused workspace and has hidden it.
C3_Witness ==
  \E p \in Procs :
    /\ ToggledExisting(p) /\ qt[p].ws = ws[p] /\ ws[p] = curWs
    /\ cmds[p] = HideCmds(qt[p].id)
    /\ wins[qt[p].id].loc = Scratch

\* C4: toggle(S) that finds the window tagged for S anywhere but on the
\* focused workspace issues the hide against its id and then the show
\* against the tag; the window is then on the focused workspace with the
\* geometry planned for that workspace.
C4_RelocateWhenElsewhere ==
  \A p \in Procs :
    /\ (pc[p] = "x_hide" /\ Elsewhere(qt[p], ws[p])) =>
         /\ wins[qt[p].id].mark = MARK_QT(shell[p])
         /\ wins[qt[p].id].loc # curWs
    /\ (ToggledExisting(p) /\ Elsewhere(qt[p], ws[p])) =>
         /\ cmds[p] = RelocateCmds(qt[p].id, shell[p])
         /\ Latest(p) => /\ wins[qt[p].id].mark = MARK_QT(shell[p])
                         /\ wins[qt[p].id].loc = curWs
                         /\ wins[qt[p].id].geom = Overlay(curWs)

\* A toggle found its window on the other workspace and brought it over.
C4_Witness ==
  \E p \in Procs :
    /\ ToggledExisting(p) /\ qt[p].ws \in Workspaces /\ qt[p].ws # curWs
    /\ cmds[p] = RelocateCmds(qt[p].id, shell[p])
    /\ wins[qt[p].id].loc = curWs
    /\ wins[qt[p].id].geom = Overlay(curWs)

\* A toggle found its window parked in the scratchpad and showed it.
C4_WitnessParked ==
  \E p \in Procs :
    /\ ToggledExisting(p) /\ qt[p].ws = Scratch
    /\ cmds[p] = RelocateCmds(qt[p].id, shell[p])
    /\ wins[qt[p].id].loc = curWs

\* C5: no step of an invocation toggling shell S changes a live window
\* tagged for another shell T (its tag, workspace, floating flag, geometry).
C5_OtherShellUntouched ==
  [][\A p \in Procs : \A w \in Wins :
       (/\ shell[p] \in Shells
        /\ Run(p)
        /\ wins[w].alive
        /\ MatchesPattern(wins[w].mark)
        /\ wins[w].mark # MARK_QT(shell[p]))
       => wins'[w] = wins[w]]_vars

\* A spawn whose loop ended without the handler having fired.
TimedOut(p) ==
  pc[p] = "done" /\ cmds[p] # <<>> /\ Head(cmds[p]).op = "exec" /\ ~done[p]

\* The invocation is past the branch of toggle_quickterm.
PastBranchPcs ==
  {"loop", "h_hide", "h_show", "x_ws", "x_hide", "x_cmp", "done", "failed"}
PastBranch(p) == pc[p] \in PastBranchPcs

\* C6: a spawn that ends without a matching focus event has issued the exec
\* and nothing else, and no window carries the shell's tag; the toggle for
\* the same shell that follows spawns again.
C6_TimeoutSpawnsAgain ==
  /\ \A p \in Procs :
       TimedOut(p) =>
         /\ cmds[p] = <<Cmd("exec", NoWin, shell[p])>>
         /\ Latest(p) => Tagged(shell[p]) = {}
  /\ (TimedOut("p1") /\ shell["p2"] = shell["p1"] /\ PastBranch("p2")) =>
       /\ cmds["p2"] # <<>>
       /\ Head(cmds["p2"]) = Cmd("exec", NoWin, shell["p2"])

\* A spawn timed out and the next toggle for the shell has exec'ed again.
C6_Witness ==
  /\ TimedOut("p1") /\ cmds["p1"] = <<Cmd("exec", NoWin, shell["p1"])>>
  /\ shell["p2"] = shell["p1"] /\ pc["p2"] = "loop"
  /\ Head(cmds["p2"]).op = "exec"
  /\ Tagged(shell["p1"]) = {}

\* C7: after the window manager has rejected a command of an invocation,
\* the invocation issues no further command.
C7_RejectionAborts ==
  \A p \in Procs : rej[p] # 0 => Len(cmds[p]) = rej[p]

\* C8: an invocation one of whose workspace queries reported no focused
\* workspace, or several, has failed; in the existing-window branch a
\* failure of the query before move_back leaves no command issued.
C8_BadReplyIsFatal ==
  \A p \in Procs :
    /\ badReply[p] => pc[p] = "failed"
    /\ (pc[p] = "failed" /\ qt[p].id # NoWin /\ ws[p] = "") => cmds[p] = <<>>

\* C9: once the handler has run its mark, hide and show, the event loop is
\* over: no invocation is back in the loop with its flag set.
C9_LoopEndsOnCompletion ==
  \A p \in Procs : pc[p] = "loop" => ~done[p]

\* An invocation that went through the early return of the selector.
SelectorHid(p) == pc[p] = "done" /\ shell[p] = NoArg /\ qt[p].id # NoWin

\* C10: the selector reaches the history file and the menu only when no
\* quickterm window is on the focused workspace; otherwise it hides one of
\* those windows by its id and returns, having issued no other command,
\* taken no lock, run no menu and written no history.
C10_SelectorHidesVisible ==
  \A p \in Procs :
    /\ (pc[p] \in {"s_lock", "menu"} /\ shell[p] = NoArg) =>
         VisibleQuickterms = {}
    /\ pc[p] = "s_hide" =>
         /\ qt[p].id \in VisibleQuickterms
         /\ cmds[p] = <<>> /\ io[p] = <<>> /\ lock # p
    /\ SelectorHid(p) =>
         /\ cmds[p] = HideCmds(qt[p].id)
         /\ io[p] = <<>> /\ lock # p
         /\ Latest(p) => wins[qt[p].id].loc = Scratch

\* The selector found a quickterm on the focused workspace and has hidden it.
C10_Witness ==
  \E p \in Procs :
    /\ SelectorHid(p) /\ qt[p].ws = ws[p] /\ ws[p] = curWs
    /\ cmds[p] = HideCmds(qt[p].id)
    /\ wins[qt[p].id].loc = Scratch /\ MatchesPattern(wins[qt[p].id].mark)

\* The invocation ran the menu and the menu printed a configured shell.
ViaMenu(p) == shell[p] \in Shells /\ io[p] # <<>>

C12_UnknownShellExitsOne ==
  \A p \in Procs :
    /\ (shell[p] \notin Shells \cup {NoArg}) =>
         /\ pc[p] = "exit1" /\ ExitCode(p) = 1
         /\ cmds[p] = <<>> /\ io[p] = <<>>
         /\ ws[p] = "" /\ qt[p] = NoQt /\ ~Subscribed(p)
    /\ (shell[p] \in Shells /\ pc[p] \in Finished) => ExitCode(p) = 0
    /\ pc[p] = "exit1" => shell[p] \notin Shells \cup {NoArg}

\* One invocation has returned 1 for an unknown shell, another 0 for a
\* configured one.
C12_Witness ==
  \E p, q \in Procs :
    /\ pc[p] = "exit1" /\ shell[p] = "ruby" /\ ExitCode(p) = 1
    /\ pc[q] = "done" /\ shell[q] \in Shells /\ cmds[q] # <<>> /\ ExitCode(q) = 0

\* h * num / den rounded to the nearest integer (halves upwards).
RoundNearest(h, num, den) == (2 * h * num + den) \div (2 * den)

\* C13: the planned overlay is as wide as the workspace and
\* round(height * ratio) high, and a repeated call plans the same.
C13_HeightIsRounded ==
  planned # <<>> =>
    /\ planned[3] = planArgs.rect.width
    /\ planned[4] = RoundNearest(planArgs.rect.height, planArgs.num, planArgs.den)

\* C14: the overlay starts at the workspace's x; at the top edge it starts
\* at the workspace's y, at the bottom edge it ends 6 pixels above the
\* workspace's bottom; for (0, 0, 1920, 1080) and ratio 1/4 the plans are
\* (0, 0, 1920, 270) and (0, 804, 1920, 270).
C14_EdgePlacement ==
  planned # <<>> =>
    LET r == planArgs.rect IN
    /\ planned[1] = r.x
    /\ planArgs.pos = "top" => planned[2] = r.y
    /\ planArgs.pos = "bottom" => planned[2] + planned[4] + 6 = r.y + r.height
    /\ (r = [x |-> 0, y |-> 0, width |-> 1920, height |-> 1080]
        /\ planArgs.num = 1 /\ planArgs.den = 4) =>
         planned = IF planArgs.pos = "top" THEN <<0, 0, 1920, 270>>
                   ELSE <<0, 804, 1920, 270>>

\* The bottom overlay of the 1920 x 1080 workspace has been planned.
C14_Witness ==
  /\ planArgs.pos = "bottom" /\ planArgs.rect.height = 1080
  /\ planned = <<0, 804, 1920, 270>>

\* The invocations inside the block guarded by get_history_file.
InBlock == {p \in Procs : pc[p] = "menu"}

IsPrefix(s, t) == Len(s) <= Len(t) /\ s = SubSeq(t, 1, Len(s))

\* An invocation on the spawn path.
Spawning(p) == cmds[p] # <<>> /\ Head(cmds[p]).op = "exec"

\* C16: whatever focus events reach a spawning invocation, its commands
\* are the beginning of exec, mark, hide, show: each of mark, hide and show
\* at most once and in that order.
C16_HandlerActsOnce ==
  \A p \in Procs :
    Spawning(p) =>
      /\ IsPrefix(cmds[p], SpawnCmds(shell[p]))
      /\ done[p] <=> Len(cmds[p]) >= 2

\* The handler has run its three commands and the focus event of its own
\* 'scratchpad show', a matching one, waits to be read.
C16_Witness ==
  \E p \in Procs :
    /\ pc[p] = "loop" /\ done[p] /\ cmds[p] = SpawnCmds(shell[p])
    /\ evq[p] # <<>>
    /\ Head(evq[p]).inst \in {ClassInst, TermInst}
    /\ wins[Head(evq[p]).win].mark = "quickterm_" \o shell[p]

\* C17: the step of the handler that sends 'mark' leaves the tag on the
\* window of the focus event it matched.
C17_TagGoesToEventWindow ==
  [][\A p \in Procs :
       (pc[p] = "loop" /\ pc'[p] = "h_hide") =>
         wins'[Head(evq[p]).win].mark = "quickterm_" \o shell[p]]_vars

\* The positions inside toggle_quickterm.
TogglePcs == {"toggle", "loop", "h_hide", "h_show", "x_ws", "x_hide", "x_cmp"}

\* C18: an invocation inside toggle_quickterm returns, whether or not a
\* focus event ever reaches its loop.
C18_ToggleTerminates ==
  \A p \in Procs : (pc[p] \in TogglePcs) ~> (pc[p] \in Finished)

\* A spawn has returned although its terminal never mapped a window and
\* no focus event was delivered.
C18_Witness ==
  \E p \in Procs :
    /\ pc[p] = "done" /\ Spawning(p) /\ ~done[p]
    /\ pendingExec = 0
    /\ \A w \in Wins : ~wins[w].alive

\* l holds every configured shell once and nothing else.
IsPermutation(l) == Len(l) = Cardinality(Shells) /\ Range(l) = Shells

\* The stored content is empty or invalid, or a permutation of the shells.
WellStored(h) == ~h.valid \/ h.list = <<>> \/ IsPermutation(h.list)

\* The order the menu was given: the stored list when it is a list over
\* exactly the configured shells, the sorted names otherwise.
PreviousOrder(h) ==
  IF h.valid /\ Range(h.list) = Shells THEN h.list ELSE <<"js", "python">>

\* l with the entries equal to s taken out.
Without(l, s) == SelectSeq(l, LAMBDA x : x # s)

\* C19: the history changes only where the selector writes it for the
\* selected shell s, to s followed by the offered order without s; a stored
\* list over another set of names counts as the sorted names; from an empty,
\* invalid or permuted stored list the list written is a permutation of the
\* configured shells.
C19_HistoryIsMruOrder ==
  [][/\ hist' # hist =>
          \E p \in Procs : pc[p] = "menu" /\ pc'[p] = "toggle"
     /\ \A p \in Procs :
          (pc[p] = "menu" /\ pc'[p] = "toggle") =>
            LET s == shell'[p] IN
            /\ s \in Shells
            /\ hist'.valid
            /\ hist'.list = <<s>> \o Without(PreviousOrder(hist), s)
            /\ WellStored(hist) => IsPermutation(hist'.list)]_vars

\* The first run of the selector has written python on top of the order it
\* offered.
C19_Witness ==
  \E p \in Procs :
    /\ shell[p] = "python" /\ io[p] = <<"lock", "menu", "write", "unlock">>
    /\ hist = [valid |-> TRUE, list |-> <<"python", "js">>]
    /\ runs = 1

\* C20: the step in which the menu's output is no configured shell leaves
\* the history as it was, and the invocation ends having sent no command.
C20_NoSelectionChangesNothing ==
  [][\A p \in Procs :
       /\ (pc[p] = "menu" /\ pc'[p] = "done") =>
            /\ hist' = hist
            /\ shell'[p] = NoArg
       /\ (pc'[p] = "done" /\ shell'[p] = NoArg /\ io'[p] # <<>>) =>
            /\ cmds'[p] = <<>>
            /\ io'[p] = <<"lock", "menu", "unlock">>]_vars

\* A selector run has ended on a menu output that is no configured shell,
\* with the history an earlier run wrote still in place.
C20_Witness ==
  \E p \in Procs :
    /\ pc[p] = "done" /\ shell[p] = NoArg
    /\ io[p] = <<"lock", "menu", "unlock">> /\ cmds[p] = <<>>
    /\ hist.valid /\ IsPermutation(hist.list)

====
